---- MODULE Spec2Model ----
(***************************************************************************)
(* api-test: the users service.  Three HTTP handlers (GET /users,          *)
(* GET /user?id=, POST /users) delegate to UserService, which reads        *)
(* through a Redis cache and writes to a relational store; GET /health     *)
(* answers on its own.  Every store or cache call of a request is one      *)
(* atomic step; requests interleave.                                       *)
(***************************************************************************)
EXTENDS Integers, Sequences, FiniteSets, TLC

\* ------------------------------------------------------------------ bounds
NumProcs == 2          \* concurrent request goroutines
MaxRows == 2           \* rows the store may hold
MaxClock == 1          \* the wall clock stops advancing here (minutes)
TickStep == 5          \* minutes that pass in one Tick
MaxFaults == 1         \* outages and damaged cache values injected in a run
MaxIDArg == 1          \* numeric id arguments are 1 .. MaxIDArg

Procs == 1 .. NumProcs

\* ------------------------------------------------------ program constants
AllUsersKey == "all_users"
\* ttl arguments of cache.Set, minutes
AllUsersTTL == 5
UserTTL == 10

StatusOK == 200
StatusCreated == 201
StatusBadRequest == 400
StatusNotFound == 404
StatusMethodNotAllowed == 405
StatusInternalServerError == 500

ContentTypeJSON == "application/json"

ErrIDRequired == "id parameter is required"
ErrUserNotFound == "user not found"
ErrNameEmailRequired == "name and email are required"
ErrInvalidBody == "invalid request body"
ErrCreatePrefix == "failed to create user: "
\* errors of the collaborators (database/sql, the driver, go-redis)
ErrNoRows == "sql: no rows in result set"
ErrStoreDown == "dial tcp: connection refused"
ErrBadIDSyntax == "invalid input syntax for type integer"
ErrDuplicate == "duplicate key value violates unique constraint"
ErrRedisNil == "redis: nil"
ErrCacheDown == "redis: connection refused"

\* ------------------------------------------------------------- model.User
ZeroUser == [id |-> 0, name |-> "", email |-> "", created_at |-> 0, updated_at |-> 0]

User(i, n, e, c, u) == [id |-> i, name |-> n, email |-> e, created_at |-> c, updated_at |-> u]

\* a Go slice of users: the nil slice differs from an empty one when encoded
NilSlice == [nil |-> TRUE, elems |-> <<>>]

SliceOf(seq) == [nil |-> FALSE, elems |-> seq]

\* ------------------------------------------------------- encoding/json
JNull == [t |-> "null"]
JBad == [t |-> "bad"]
JArr(seq) == [t |-> "arr", arr |-> seq]
JObj(u) == [t |-> "obj", obj |-> u]
JErr(msg) == [t |-> "err", err |-> msg]
\* map[string]string{"status": s}
JStatus(s) == [t |-> "status", status |-> s]
\* nothing was written to the response body
NoBody == [t |-> "none"]

\* json.Marshal of a []model.User
MarshalUsers(s) == IF s.nil THEN JNull ELSE JArr(s.elems)

\* json.Marshal of a model.User
MarshalUser_noID(u) == JObj([u EXCEPT !.id = 0])
MarshalUser(u) == JObj(u)

\* json.Unmarshal into a []model.User: null leaves the slice nil, an array
\* fills it, anything else is an error
UnmarshalUsers_first(j) ==
    IF j.t = "arr" THEN [ok |-> TRUE, users |-> SliceOf(SubSeq(j.arr, 1, 1))]
    ELSE [ok |-> j.t = "null", users |-> NilSlice]
UnmarshalUsers(j) ==
    CASE j.t = "arr" -> [ok |-> TRUE, users |-> SliceOf(j.arr)]
      [] j.t = "null" -> [ok |-> TRUE, users |-> NilSlice]
      [] OTHER -> [ok |-> FALSE, users |-> NilSlice]

\* json.Unmarshal into a model.User: null leaves the zero value
UnmarshalUser(j) ==
    CASE j.t = "obj" -> [ok |-> TRUE, user |-> j.obj]
      [] j.t = "null" -> [ok |-> TRUE, user |-> ZeroUser]
      [] OTHER -> [ok |-> FALSE, user |-> ZeroUser]

\* ------------------------------------------------------------- requests
\* the id query parameter: absent/empty, a number, or a non-numeric string
IdStrings == {"", "abc"} \cup {ToString(n) : n \in 1 .. MaxIDArg}

\* fmt.Sprintf("user:%s", id)
UserKey(id) == "user:" \o id

CacheKeys == {AllUsersKey} \cup {UserKey(s) : s \in IdStrings \ {""}}

\* request bodies of POST /users as JSON values; Undecodable stands for a
\* body json.Decoder rejects (malformed, or of the wrong type)
Undecodable == [t |-> "bad"]

\* json.NewDecoder(r.Body).Decode(&user): an object fills the record, null
\* leaves the zero value, anything else is an error
Decode_lenient(b) ==
    IF b.t = "obj" THEN [ok |-> TRUE, user |-> b.obj] ELSE [ok |-> TRUE, user |-> ZeroUser]
Decode(b) ==
    CASE b.t = "obj" -> [ok |-> TRUE, user |-> b.obj]
      [] b.t = "null" -> [ok |-> TRUE, user |-> ZeroUser]
      [] OTHER -> [ok |-> FALSE, user |-> ZeroUser]

\* the request methods
Methods == {"GET", "POST", "PUT", "DELETE"}

\* the /users route: the handler a method is sent to
UsersRoute(m) ==
    IF m = "GET" THEN "GetAll" ELSE IF m = "POST" THEN "Create" ELSE "NotAllowed"

Bodies ==
    { JObj(User(0, "Ann", "a@x", 0, 0)),
      JObj(User(0, "Bob", "b@x", 0, 0)),
      JObj(User(9, "Ann", "a@x", 3, 4)),
      JObj(User(0, "", "a@x", 0, 0)),
      JObj(User(0, "Ann", "", 0, 0)),
      JNull,
      Undecodable }

\* ------------------------------------------------------------------ state
VARIABLES
    db,        \* the users table: a set of rows
    dbUp,      \* the store answers
    cache,     \* Redis: key -> [json, ttl]; ttl is the minutes left
    cacheUp,   \* Redis answers
    now,       \* time.Now(), minutes
    pc,        \* per request: idle, query, set, insert, invalidate, done
    op,        \* per request: the operation it runs
    id,        \* GetByID: the id argument
    user,      \* Create: the decoded record; GetByID: the scanned row
    users,     \* GetAll: the slice being built
    resp,      \* the HTTP response written
    calls,     \* the store and cache calls the request has made
    cacheRead, \* outcome of the request's cache.Get
    cacheWrite,\* outcome of the request's cache.Set / cache.Delete
    dbErr,     \* error of the request's store call ("" when none)
    seen,      \* the ids Create had returned when the read started
    reqBody,   \* Create: the request body as decoded
    outage,    \* the store was away when the request came and still is
    returned,  \* every record a Create has returned with 201
    faults     \* faults injected so far

vars == <<db, dbUp, cache, cacheUp, now, pc, op, id, user, users, resp, calls,
          cacheRead, cacheWrite, dbErr, seen, reqBody, outage, returned, faults>>

locals == <<pc, op, id, user, users, resp, calls, cacheRead, cacheWrite, dbErr, seen, reqBody>>

NoEntry == [json |-> JNull, ttl |-> 0, present |-> FALSE]

Entry_sameTTL(j, ttl) == [json |-> j, ttl |-> AllUsersTTL, present |-> TRUE]
Entry(j, ttl) == [json |-> j, ttl |-> ttl, present |-> TRUE]

NoResp == [status |-> 0, ctype |-> "", body |-> JNull]

Response(status, body) == [status |-> status, ctype |-> ContentTypeJSON, body |-> body]

Init ==
    /\ db = {}
    /\ dbUp = TRUE
    /\ cache = [k \in CacheKeys |-> NoEntry]
    /\ cacheUp = TRUE
    /\ now = 1
    /\ pc = [p \in Procs |-> "idle"]
    /\ op = [p \in Procs |-> "none"]
    /\ id = [p \in Procs |-> ""]
    /\ user = [p \in Procs |-> ZeroUser]
    /\ users = [p \in Procs |-> NilSlice]
    /\ resp = [p \in Procs |-> NoResp]
    /\ calls = [p \in Procs |-> {}]
    /\ cacheRead = [p \in Procs |-> "none"]
    /\ cacheWrite = [p \in Procs |-> "none"]
    /\ dbErr = [p \in Procs |-> ""]
    /\ seen = [p \in Procs |-> {}]
    /\ reqBody = [p \in Procs |-> JNull]
    /\ outage = [p \in Procs |-> FALSE]
    /\ returned = {}
    /\ faults = 0

\* ------------------------------------------------------------- the store
RECURSIVE SortByID(_)
\* ORDER BY id
SortByID(rows) ==
    IF rows = {} THEN <<>>
    ELSE LET m == CHOOSE r \in rows : \A q \in rows : r.id <= q.id
         IN <<m>> \o SortByID(rows \ {m})

\* SELECT id, name, email, created_at, updated_at FROM users ORDER BY id
SelectAll_newestFirst(rows) ==
    LET asc == SortByID(rows) IN [i \in 1 .. Len(asc) |-> asc[Len(asc) + 1 - i]]
SelectAll(rows) == SortByID(rows)

\* the identifier column is an auto-incremented integer key
NextID == IF db = {} THEN 1 ELSE 1 + (CHOOSE n \in {r.id : r \in db} : \A r \in db : r.id <= n)

\* INSERT: the table gains the row, the rows it had stay
StoreInsert_replace(rows, r) == {r}
StoreInsert(rows, r) == rows \cup {r}

\* WHERE id = $1 with a string argument: the rows whose id prints as s
RowsByID_all(s) == db
RowsByID(s) == {r \in db : ToString(r.id) = s}

IsNumeric(s) == s \in {ToString(n) : n \in 0 .. MaxIDArg}

Prefix(seq, k) == SubSeq(seq, 1, k)

\* ------------------------------------------------------------- the cache
\* Client.Get: the value, or redis.Nil for an absent key, or a network error
CacheGet(k) ==
    IF ~cacheUp THEN [err |-> ErrCacheDown, val |-> JNull]
    ELSE IF ~cache[k].present THEN [err |-> ErrRedisNil, val |-> JNull]
    ELSE [err |-> "", val |-> cache[k].json]

\* Client.Set / Client.Delete: the cache after the call (unchanged when the
\* call fails)
CacheSet_noTTL(k, j, ttl) == IF cacheUp THEN [cache EXCEPT ![k] = Entry(j, 0)] ELSE cache
CacheSet(k, j, ttl) == IF cacheUp THEN [cache EXCEPT ![k] = Entry(j, ttl)] ELSE cache

CacheDelete_flush(k) == IF cacheUp THEN [c \in CacheKeys |-> NoEntry] ELSE cache
CacheDelete_noop(k) == cache
CacheDelete(k) == IF cacheUp THEN [cache EXCEPT ![k] = NoEntry] ELSE cache

CacheCallErr == IF cacheUp THEN "" ELSE ErrCacheDown

WriteOutcome(err) == IF err = "" THEN "ok" ELSE "err"

\* ------------------------------------------------------ UserService.GetAll
\* lines 31-37: the cached list is returned only when cache.Get and
\* json.Unmarshal both succeed
GetAllCached(r) ==
    LET u == UnmarshalUsers(r.val)
    IN [hit |-> r.err = "" /\ u.ok, users |-> u.users]

\* how the request's cache read ended
ReadOutcome(r, ok) ==
    CASE r.err = ErrRedisNil -> "miss"
      [] r.err # "" -> "err"
      [] ~ok -> "bad"
      [] OTHER -> "hit"

\* line 56: only a result with at least one row is cached
ShouldCache_always(us) == TRUE
ShouldCache(us) == Len(us.elems) > 0

\* line 58: the error of cache.Set is discarded
GetAllSetErr_returned(setErr) == setErr
GetAllSetErr(setErr) == ""

\* UserHandler.GetAll: 500 with the error text, or 200 with the array, an
\* explicit [] when the slice is empty
GetAllResponse_asIs(us, err) ==
    IF err # "" THEN Response(StatusInternalServerError, JErr(err))
    ELSE Response(StatusOK, MarshalUsers(us))
GetAllResponse(us, err) ==
    IF err # "" THEN Response(StatusInternalServerError, JErr(err))
    ELSE IF Len(us.elems) = 0 THEN Response(StatusOK, JArr(<<>>))
    ELSE Response(StatusOK, MarshalUsers(us))

Finish(p, r) ==
    /\ pc' = [pc EXCEPT ![p] = "done"]
    /\ resp' = [resp EXCEPT ![p] = r]

\* GET /users arrives: the handler calls GetAll, which reads the cache
GetAllStart(p) ==
    /\ pc[p] = "idle"
    /\ LET r == CacheGet(AllUsersKey)
           c == GetAllCached(r)
       IN /\ op' = [op EXCEPT ![p] = "List"]
          /\ calls' = [calls EXCEPT ![p] = {"cache.Get"}]
          /\ cacheRead' = [cacheRead EXCEPT ![p] = ReadOutcome(r, c.hit)]
          /\ seen' = [seen EXCEPT ![p] = {u.id : u \in returned}]
          /\ IF c.hit
             THEN /\ users' = [users EXCEPT ![p] = c.users]
                  /\ Finish(p, GetAllResponse(c.users, ""))
             ELSE /\ pc' = [pc EXCEPT ![p] = "query"]
                  /\ UNCHANGED <<users, resp>>
    /\ outage' = [outage EXCEPT ![p] = ~dbUp]
    /\ UNCHANGED <<db, dbUp, cache, cacheUp, now, id, user, cacheWrite, dbErr, reqBody, returned, faults>>

ErrRowsIter == "rows: connection lost"

\* lines 40-53: the query and the rows.Next loop.  A query error is
\* returned; a failure while iterating ends the loop like the last row does
\* (rows.Err is not read), here with the store gone from then on.
GetAllQuery(p) ==
    /\ pc[p] = "query" /\ op[p] = "List"
    /\ calls' = [calls EXCEPT ![p] = @ \cup {"db.Query"}]
    /\ IF ~dbUp
       THEN /\ dbErr' = [dbErr EXCEPT ![p] = ErrStoreDown]
            /\ Finish(p, GetAllResponse(NilSlice, ErrStoreDown))
            /\ UNCHANGED <<users, dbUp, faults>>
       ELSE \E k \in 0 .. Cardinality(db) :
              LET all == SelectAll(db)
                  got == IF k = 0 THEN NilSlice ELSE SliceOf(Prefix(all, k))
              IN /\ k < Len(all) => faults < MaxFaults
                 /\ faults' = IF k < Len(all) THEN faults + 1 ELSE faults
                 /\ users' = [users EXCEPT ![p] = got]
                 /\ dbUp' = (k = Len(all))
                 /\ dbErr' = [dbErr EXCEPT ![p] = IF k = Len(all) THEN "" ELSE ErrRowsIter]
                 /\ IF ShouldCache(got)
                    THEN /\ pc' = [pc EXCEPT ![p] = "set"]
                         /\ UNCHANGED resp
                    ELSE Finish(p, GetAllResponse(got, ""))
    /\ UNCHANGED <<db, cache, cacheUp, now, op, id, user, cacheRead, cacheWrite, seen, reqBody,
                   outage, returned>>

\* lines 56-61: a non-empty result is cached for 5 minutes and returned
GetAllCacheSet(p) ==
    /\ pc[p] = "set" /\ op[p] = "List"
    /\ calls' = [calls EXCEPT ![p] = @ \cup {"cache.Set"}]
    /\ cache' = CacheSet(AllUsersKey, MarshalUsers(users[p]), AllUsersTTL)
    /\ cacheWrite' = [cacheWrite EXCEPT ![p] = WriteOutcome(CacheCallErr)]
    /\ Finish(p, GetAllResponse(users[p], GetAllSetErr(CacheCallErr)))
    /\ UNCHANGED <<db, dbUp, cacheUp, now, op, id, user, users, cacheRead, dbErr, seen, reqBody,
                   outage, returned, faults>>

\* ---------------------------------------------------- UserService.GetByID
\* lines 73-79
GetByIDCached(r) ==
    LET u == UnmarshalUser(r.val)
    IN [hit |-> r.err = "" /\ u.ok, user |-> u.user]

\* lines 88-94: sql.ErrNoRows becomes "user not found", any other error is
\* returned as it is
GetByIDErr_raw(err) == err
GetByIDErr(err) == IF err = ErrNoRows THEN ErrUserNotFound ELSE err

\* line 98
GetByIDSetErr(setErr) == ""

\* UserHandler.GetByID, the part after the service call
GetByIDResponse(u, err) ==
    IF err # ""
    THEN IF err = ErrUserNotFound
         THEN Response(StatusNotFound, JErr(ErrUserNotFound))
         ELSE Response(StatusInternalServerError, JErr(err))
    ELSE Response(StatusOK, MarshalUser(u))

\* UserHandler.GetByID, lines 118-123 of the handler: the id parameter is
\* absent or empty
HandlerIDMissing_never(s) == FALSE
HandlerIDMissing(s) == s = ""

\* UserService.GetByID, lines 66-68
ServiceIDMissing(s) == s = ""

\* GET /user?id=s arrives: the handler rejects an empty id, else GetByID
\* reads the cache under user:<id>
GetByIDStart(p, s) ==
    /\ pc[p] = "idle"
    /\ op' = [op EXCEPT ![p] = "Get"]
    /\ id' = [id EXCEPT ![p] = s]
    /\ outage' = [outage EXCEPT ![p] = ~dbUp]
    /\ seen' = [seen EXCEPT ![p] = {u.id : u \in returned} \cap {n \in 1 .. MaxIDArg : ToString(n) = s}]
    /\ IF HandlerIDMissing(s)
       THEN /\ Finish(p, Response(StatusBadRequest, JErr(ErrIDRequired)))
            /\ UNCHANGED <<calls, cacheRead, user>>
       ELSE IF ServiceIDMissing(s)
       THEN /\ Finish(p, GetByIDResponse(ZeroUser, ErrIDRequired))
            /\ UNCHANGED <<calls, cacheRead, user>>
       ELSE LET r == CacheGet(UserKey(s))
                c == GetByIDCached(r)
            IN /\ calls' = [calls EXCEPT ![p] = {"cache.Get"}]
               /\ cacheRead' = [cacheRead EXCEPT ![p] = ReadOutcome(r, c.hit)]
               /\ IF c.hit
                  THEN /\ user' = [user EXCEPT ![p] = c.user]
                       /\ Finish(p, GetByIDResponse(c.user, ""))
                  ELSE /\ pc' = [pc EXCEPT ![p] = "query"]
                       /\ UNCHANGED <<user, resp>>
    /\ UNCHANGED <<db, dbUp, cache, cacheUp, now, users, cacheWrite, dbErr, reqBody, returned, faults>>

\* what QueryRow(...).Scan can return for WHERE id = s: a connection error,
\* no row, the row; for a string that is no integer the engine decides
\* between a syntax error and no row
QueryRowOutcomes_noRow(s) == {[err |-> ErrNoRows, row |-> ZeroUser]}
QueryRowOutcomes(s) ==
    IF ~dbUp THEN {[err |-> ErrStoreDown, row |-> ZeroUser]}
    ELSE IF ~IsNumeric(s)
    THEN {[err |-> ErrBadIDSyntax, row |-> ZeroUser], [err |-> ErrNoRows, row |-> ZeroUser]}
    ELSE IF RowsByID(s) = {} THEN {[err |-> ErrNoRows, row |-> ZeroUser]}
    ELSE {[err |-> "", row |-> r] : r \in RowsByID(s)}

\* lines 82-94
GetByIDQuery(p) ==
    /\ pc[p] = "query" /\ op[p] = "Get"
    /\ calls' = [calls EXCEPT ![p] = @ \cup {"db.QueryRow"}]
    /\ \E o \in QueryRowOutcomes(id[p]) :
         /\ dbErr' = [dbErr EXCEPT ![p] = o.err]
         /\ IF o.err # ""
            THEN /\ Finish(p, GetByIDResponse(ZeroUser, GetByIDErr(o.err)))
                 /\ UNCHANGED user
            ELSE /\ user' = [user EXCEPT ![p] = o.row]
                 /\ pc' = [pc EXCEPT ![p] = "set"]
                 /\ UNCHANGED resp
    /\ UNCHANGED <<db, dbUp, cache, cacheUp, now, op, id, users, cacheRead, cacheWrite, seen,
                   reqBody, outage, returned, faults>>

\* lines 96-100: the row is cached for 10 minutes and returned
GetByIDCacheSet(p) ==
    /\ pc[p] = "set" /\ op[p] = "Get"
    /\ calls' = [calls EXCEPT ![p] = @ \cup {"cache.Set"}]
    /\ cache' = CacheSet(UserKey(id[p]), MarshalUser(user[p]), UserTTL)
    /\ cacheWrite' = [cacheWrite EXCEPT ![p] = WriteOutcome(CacheCallErr)]
    /\ Finish(p, GetByIDResponse(user[p], GetByIDSetErr(CacheCallErr)))
    /\ UNCHANGED <<db, dbUp, cacheUp, now, op, id, user, users, cacheRead, dbErr, seen, reqBody,
                   outage, returned, faults>>

\* ----------------------------------------------------- UserService.Create
\* line 105
CreateValid_both(u) == ~(u.name = "" /\ u.email = "")
CreateValid(u) == ~(u.name = "" \/ u.email = "")

\* lines 113, 119-120: the record after the insert: the scanned id and the
\* insert timestamp in both time fields
Populate_created(u, newID, t) == [u EXCEPT !.id = newID, !.created_at = t]
Populate(u, newID, t) == [u EXCEPT !.id = newID, !.created_at = t, !.updated_at = t]

\* lines 110-120: the record Create leaves to its caller: untouched when
\* the insert failed (Scan assigns nothing, the function returns at 116)
AfterInsert_stamped(u, err, newID, t) == Populate(u, newID, t)
AfterInsert(u, err, newID, t) == IF err # "" THEN u ELSE Populate(u, newID, t)

\* the row INSERT ... VALUES ($1, $2, $3, $4) RETURNING id adds
InsertedRow_asSent(u, newID, t) ==
    User(newID, u.name, u.email, IF u.created_at # 0 THEN u.created_at ELSE t, t)
InsertedRow(u, newID, t) == User(newID, u.name, u.email, t, t)

\* the insert fails when the store is away or the email is taken (the
\* email column is UNIQUE)
InsertErr_noConstraint(u) == IF ~dbUp THEN ErrStoreDown ELSE ""
InsertErr(u) ==
    IF ~dbUp THEN ErrStoreDown
    ELSE IF \E r \in db : r.email = u.email THEN ErrDuplicate
    ELSE ""

\* line 123: the error of cache.Delete is discarded
CreateDeleteErr_returned(delErr) == delErr
CreateDeleteErr(delErr) == ""

\* UserHandler.Create, the part after the service call: every service
\* error is answered 400
CreateResponse(u, err) ==
    IF err # "" THEN Response(StatusBadRequest, JErr(err))
    ELSE Response(StatusCreated, MarshalUser(u))

Inserting == {q \in Procs : pc[q] = "insert"}

\* POST /users arrives: the handler decodes the body, Create validates it
CreateStart(p, b) ==
    /\ pc[p] = "idle"
    /\ op' = [op EXCEPT ![p] = "Create"]
    /\ reqBody' = [reqBody EXCEPT ![p] = b]
    /\ outage' = [outage EXCEPT ![p] = ~dbUp]
    /\ IF ~Decode(b).ok
       THEN /\ Finish(p, Response(StatusBadRequest, JErr(ErrInvalidBody)))
            /\ UNCHANGED user
       ELSE /\ user' = [user EXCEPT ![p] = Decode(b).user]
            /\ IF ~CreateValid(Decode(b).user)
               THEN Finish(p, CreateResponse(Decode(b).user, ErrNameEmailRequired))
               ELSE /\ Cardinality(db) + Cardinality(Inserting) < MaxRows
                    /\ pc' = [pc EXCEPT ![p] = "insert"]
                    /\ UNCHANGED resp
    /\ UNCHANGED <<db, dbUp, cache, cacheUp, now, id, users, calls, cacheRead, cacheWrite,
                   dbErr, seen, returned, faults>>

\* lines 109-120
CreateInsert(p) ==
    /\ pc[p] = "insert"
    /\ calls' = [calls EXCEPT ![p] = @ \cup {"db.QueryRow"}]
    /\ LET err == InsertErr(user[p])
       IN /\ dbErr' = [dbErr EXCEPT ![p] = err]
          /\ user' = [user EXCEPT ![p] = AfterInsert(@, err, NextID, now)]
          /\ IF err # ""
             THEN /\ Finish(p, CreateResponse(user[p], ErrCreatePrefix \o err))
                  /\ UNCHANGED db
             ELSE /\ db' = StoreInsert(db, InsertedRow(user[p], NextID, now))
                  /\ pc' = [pc EXCEPT ![p] = "invalidate"]
                  /\ UNCHANGED resp
    /\ UNCHANGED <<dbUp, cache, cacheUp, now, op, id, users, cacheRead, cacheWrite, seen,
                   reqBody, outage, returned, faults>>

\* lines 122-125, and the handler's 201
CreateInvalidate(p) ==
    /\ pc[p] = "invalidate"
    /\ calls' = [calls EXCEPT ![p] = @ \cup {"cache.Delete"}]
    /\ cache' = CacheDelete(AllUsersKey)
    /\ cacheWrite' = [cacheWrite EXCEPT ![p] = WriteOutcome(CacheCallErr)]
    /\ LET r == CreateResponse(user[p], CreateDeleteErr(CacheCallErr))
       IN /\ Finish(p, r)
          /\ returned' = IF r.status = StatusCreated THEN returned \cup {r.body.obj}
                         ELSE returned
    /\ UNCHANGED <<db, dbUp, cacheUp, now, op, id, user, users, cacheRead, dbErr, seen, reqBody,
                   outage, faults>>

\* ------------------------------------------------------------ the routes
\* Health: /health is registered without a method test; the handler reads
\* neither the store nor the cache
HealthResponse_probing ==
    IF dbUp /\ cacheUp THEN Response(StatusOK, JStatus("ok"))
    ELSE Response(StatusInternalServerError, JStatus("down"))
HealthResponse == Response(StatusOK, JStatus("ok"))

Health(p) ==
    /\ pc[p] = "idle"
    /\ op' = [op EXCEPT ![p] = "Health"]
    /\ outage' = [outage EXCEPT ![p] = ~dbUp]
    /\ Finish(p, HealthResponse)
    /\ UNCHANGED <<db, dbUp, cache, cacheUp, now, id, user, users, calls, cacheRead, cacheWrite,
                   dbErr, seen, reqBody, returned, faults>>

\* routes.go lines 14-16: WriteHeader(405) and nothing else: no header is
\* set and no body is written
NotAllowedResponse_ok == [status |-> StatusOK, ctype |-> "", body |-> NoBody]
NotAllowedResponse == [status |-> StatusMethodNotAllowed, ctype |-> "", body |-> NoBody]

\* /users with a method that is neither GET nor POST
UsersNotAllowed(p, m) ==
    /\ pc[p] = "idle"
    /\ UsersRoute(m) = "NotAllowed"
    /\ op' = [op EXCEPT ![p] = "NotAllowed"]
    /\ outage' = [outage EXCEPT ![p] = ~dbUp]
    /\ Finish(p, NotAllowedResponse)
    /\ UNCHANGED <<db, dbUp, cache, cacheUp, now, id, user, users, calls, cacheRead, cacheWrite,
                   dbErr, seen, reqBody, returned, faults>>

\* the response is on the wire; the goroutine serves the next request
Respond(p) ==
    /\ pc[p] = "done"
    /\ pc' = [pc EXCEPT ![p] = "idle"]
    /\ op' = [op EXCEPT ![p] = "none"]
    /\ id' = [id EXCEPT ![p] = ""]
    /\ user' = [user EXCEPT ![p] = ZeroUser]
    /\ users' = [users EXCEPT ![p] = NilSlice]
    /\ resp' = [resp EXCEPT ![p] = NoResp]
    /\ calls' = [calls EXCEPT ![p] = {}]
    /\ cacheRead' = [cacheRead EXCEPT ![p] = "none"]
    /\ cacheWrite' = [cacheWrite EXCEPT ![p] = "none"]
    /\ dbErr' = [dbErr EXCEPT ![p] = ""]
    /\ seen' = [seen EXCEPT ![p] = {}]
    /\ reqBody' = [reqBody EXCEPT ![p] = JNull]
    /\ outage' = [outage EXCEPT ![p] = FALSE]
    /\ UNCHANGED <<db, dbUp, cache, cacheUp, now, returned, faults>>

\* ------------------------------------------------------- the environment
\* an entry set with ttl > 0 is dropped by Redis once its time has passed;
\* ttl = 0 is Redis's "no expiry"
Aged(e) ==
    IF ~e.present \/ e.ttl = 0 THEN e
    ELSE IF e.ttl <= TickStep THEN NoEntry
    ELSE [e EXCEPT !.ttl = @ - TickStep]

Expiring == \E k \in CacheKeys : cache[k].present /\ cache[k].ttl > 0

Tick ==
    /\ now < MaxClock \/ Expiring
    /\ now' = IF now < MaxClock THEN now + TickStep ELSE now
    /\ cache' = [k \in CacheKeys |-> Aged(cache[k])]
    /\ UNCHANGED <<db, dbUp, cacheUp, outage, returned, faults>>
    /\ UNCHANGED locals

DbFail ==
    /\ faults < MaxFaults /\ faults' = faults + 1
    /\ dbUp /\ dbUp' = FALSE
    /\ UNCHANGED <<db, cache, cacheUp, now, outage, returned>>
    /\ UNCHANGED locals

DbRecover ==
    /\ ~dbUp /\ dbUp' = TRUE
    /\ outage' = [p \in Procs |-> FALSE]
    /\ UNCHANGED <<db, cache, cacheUp, now, returned, faults>>
    /\ UNCHANGED locals

CacheFail ==
    /\ faults < MaxFaults /\ faults' = faults + 1
    /\ cacheUp /\ cacheUp' = FALSE
    /\ UNCHANGED <<db, dbUp, cache, now, outage, returned>>
    /\ UNCHANGED locals

CacheRecover ==
    /\ ~cacheUp /\ cacheUp' = TRUE
    /\ UNCHANGED <<db, dbUp, cache, now, outage, returned, faults>>
    /\ UNCHANGED locals

\* a cached value stops being valid JSON for its type (written by another
\* client of the same Redis, or damaged)
CacheCorrupt(k) ==
    /\ faults < MaxFaults /\ faults' = faults + 1
    /\ cache[k].present /\ cache[k].json # JBad
    /\ cache' = [cache EXCEPT ![k].json = JBad]
    /\ UNCHANGED <<db, dbUp, cacheUp, now, outage, returned>>
    /\ UNCHANGED locals

Next ==
    \/ \E p \in Procs : GetAllStart(p)
    \/ \E p \in Procs : GetAllQuery(p)
    \/ \E p \in Procs : GetAllCacheSet(p)
    \/ \E p \in Procs, s \in IdStrings : GetByIDStart(p, s)
    \/ \E p \in Procs : GetByIDQuery(p)
    \/ \E p \in Procs : GetByIDCacheSet(p)
    \/ \E p \in Procs, b \in Bodies : CreateStart(p, b)
    \/ \E p \in Procs : CreateInsert(p)
    \/ \E p \in Procs : CreateInvalidate(p)
    \/ \E p \in Procs : Health(p)
    \/ \E p \in Procs, m \in Methods : UsersNotAllowed(p, m)
    \/ \E p \in Procs : Respond(p)
    \/ Tick
    \/ DbFail
    \/ DbRecover
    \/ CacheFail
    \/ CacheRecover
    \/ \E k \in CacheKeys : CacheCorrupt(k)

Spec == Init /\ [][Next]_vars

\* the requests and the passing of time alone: store and cache never fail
ReliableNext ==
    \/ \E p \in Procs : GetAllStart(p)
    \/ \E p \in Procs : GetAllQuery(p) /\ dbUp'
    \/ \E p \in Procs : GetAllCacheSet(p)
    \/ \E p \in Procs, s \in IdStrings : GetByIDStart(p, s)
    \/ \E p \in Procs : GetByIDQuery(p)
    \/ \E p \in Procs : GetByIDCacheSet(p)
    \/ \E p \in Procs, b \in Bodies : CreateStart(p, b)
    \/ \E p \in Procs : CreateInsert(p)
    \/ \E p \in Procs : CreateInvalidate(p)
    \/ \E p \in Procs : Health(p)
    \/ \E p \in Procs, m \in Methods : UsersNotAllowed(p, m)
    \/ \E p \in Procs : Respond(p)
    \/ Tick

ReliableSpec == Init /\ [][ReliableNext]_vars

\* time passes: Redis expires what was set with a ttl
FairSpec == Spec /\ WF_vars(Tick)

\* at most one request is being served
OneAtATime == Cardinality({p \in Procs : pc[p] # "idle"}) <= 1

\* a sequential client of a reliable service: a request is sent only after
\* the response to the one before has been taken; time passes in between
SequentialNext ==
    \/ \E p \in Procs : GetAllStart(p) /\ OneAtATime'
    \/ \E p \in Procs : GetAllQuery(p) /\ dbUp'
    \/ \E p \in Procs : GetAllCacheSet(p)
    \/ \E p \in Procs, s \in IdStrings : GetByIDStart(p, s) /\ OneAtATime'
    \/ \E p \in Procs : GetByIDQuery(p)
    \/ \E p \in Procs : GetByIDCacheSet(p)
    \/ \E p \in Procs, b \in Bodies : CreateStart(p, b) /\ OneAtATime'
    \/ \E p \in Procs : CreateInsert(p)
    \/ \E p \in Procs : CreateInvalidate(p)
    \/ \E p \in Procs : Respond(p)
    \/ Tick

SequentialSpec == Init /\ [][SequentialNext]_vars

\* =================================================================
\* Properties
\* =================================================================
Done(p) == pc[p] = "done"

\* the identifiers in a JSON array of users
ArrayIDs(j) == IF j.t = "arr" THEN {j.arr[i].id : i \in 1 .. Len(j.arr)} ELSE {}

ValidBody(j) == j.t = "obj" /\ j.obj.name # "" /\ j.obj.email # ""

\* C1: a List that starts after a Create has returned is answered with a
\* list that contains the created row.
C1_ListAfterCreateSeesRow ==
    \A p \in Procs :
        Done(p) /\ op[p] = "List" =>
            /\ resp[p].status = StatusOK
            /\ seen[p] \subseteq ArrayIDs(resp[p].body)

\* the cached list lacks a row the store holds
StaleList ==
    /\ cache[AllUsersKey].present
    /\ cache[AllUsersKey].json.t = "arr"
    /\ \E r \in db : r.id \notin ArrayIDs(cache[AllUsersKey].json)

\* C2: a cached list that lacks a committed row does not stay: it is
\* eventually removed, by a delete or by the expiry of its time-to-live.
C2_StaleListEventuallyRemoved == StaleList ~> ~StaleList

C2_Witness_StaleListCached == StaleList

\* C3: a Create whose decoded body has an empty name or an empty email is
\* answered 400 "name and email are required" without any store or cache
\* call, and no row with an empty name or email is ever in the store.
C3_InvalidCreateRejected ==
    /\ \A p \in Procs :
        op[p] = "Create" /\ reqBody[p].t = "obj"
        /\ (reqBody[p].obj.name = "" \/ reqBody[p].obj.email = "") =>
            /\ Done(p)
            /\ resp[p].status = StatusBadRequest
            /\ resp[p].body = JErr(ErrNameEmailRequired)
            /\ calls[p] = {}
    /\ \A r \in db : r.name # "" /\ r.email # ""

C3_Witness_MissingEmailRejected ==
    \E p \in Procs :
        /\ Done(p) /\ op[p] = "Create" /\ reqBody[p].t = "obj"
        /\ reqBody[p].obj.name # "" /\ reqBody[p].obj.email = ""
        /\ resp[p].status = StatusBadRequest

\* a finished Get-by-identifier for a non-empty id that matches no row
UnknownID(p) ==
    /\ Done(p) /\ op[p] = "Get" /\ id[p] # ""
    /\ \A r \in db : ToString(r.id) # id[p]

C5_StoreErrorsAnswer500 ==
    \A p \in Procs :
        Done(p) /\ dbErr[p] \in {ErrStoreDown, ErrBadIDSyntax, ErrDuplicate} =>
            /\ resp[p].status = StatusInternalServerError
            /\ resp[p].body.t = "err"

\* a request the claim C6 is about: one that passes the handler's checks
WellFormed(p) ==
    \/ op[p] = "List"
    \/ op[p] = "Get" /\ id[p] # ""
    \/ op[p] = "Create" /\ ValidBody(reqBody[p])

\* C6: a request that arrives while the store is unreachable, and is
\* answered before the store recovers, is answered 500.
C6_OutageAnswers500 ==
    \A p \in Procs :
        Done(p) /\ outage[p] /\ WellFormed(p) =>
            resp[p].status = StatusInternalServerError

\* what the store alone makes of a finished request
StoreAnswer(p) ==
    CASE op[p] = "List" ->
           IF dbErr[p] = ErrStoreDown
           THEN [status |-> 500, ctype |-> "application/json", body |-> JErr(ErrStoreDown)]
           ELSE [status |-> 200, ctype |-> "application/json",
                 body |-> JArr(users[p].elems)]
      [] op[p] = "Get" ->
           IF dbErr[p] = ""
           THEN [status |-> 200, ctype |-> "application/json", body |-> JObj(user[p])]
           ELSE IF dbErr[p] = ErrNoRows
           THEN [status |-> 404, ctype |-> "application/json", body |-> JErr(ErrUserNotFound)]
           ELSE [status |-> 500, ctype |-> "application/json", body |-> JErr(dbErr[p])]
      [] OTHER -> [status |-> 201, ctype |-> "application/json", body |-> JObj(user[p])]

\* C7: no cache failure reaches the caller.  A request whose cache read
\* failed (error or undeserializable value) or missed, or whose cache write
\* or delete was attempted, is answered as the store alone decides; and two
\* requests that differ only in how their cache calls ended get the same
\* response.
C7_CacheFailuresNotSurfaced ==
    /\ \A p \in Procs :
         Done(p) /\ (cacheRead[p] \in {"miss", "err", "bad"} \/ cacheWrite[p] # "none") =>
             resp[p] = StoreAnswer(p)
    /\ \A p, q \in Procs :
         /\ Done(p) /\ Done(q) /\ op[p] = op[q] /\ id[p] = id[q]
         /\ cacheRead[p] # "hit" /\ cacheRead[q] # "hit"
         /\ dbErr[p] = dbErr[q] /\ users[p] = users[q] /\ user[p] = user[q]
         /\ reqBody[p] = reqBody[q]
         => resp[p] = resp[q]

C7_Witness_CacheErrorLikeMiss ==
    \E p, q \in Procs :
        /\ Done(p) /\ Done(q) /\ op[p] = "List" /\ op[q] = "List"
        /\ cacheRead[p] = "err" /\ cacheWrite[p] = "err"
        /\ cacheRead[q] = "miss"
        /\ resp[p].status = StatusOK /\ resp[q] = resp[p]
        /\ Len(users[p].elems) > 0

\* a finished Create whose body was valid and whose insert succeeded
Inserted(p) ==
    /\ Done(p) /\ op[p] = "Create" /\ ValidBody(reqBody[p])
    /\ "db.QueryRow" \in calls[p] /\ dbErr[p] = ""

\* C8: a Create with non-empty name and email whose insert succeeds
\* answers 201 with the input's name and email, a non-zero id, and
\* created-at equal to updated-at.
C8_CreateReturnsPopulatedRecord ==
    \A p \in Procs :
        Inserted(p) =>
            /\ resp[p].status = StatusCreated
            /\ resp[p].body.t = "obj"
            /\ resp[p].body.obj.name = reqBody[p].obj.name
            /\ resp[p].body.obj.email = reqBody[p].obj.email
            /\ resp[p].body.obj.id # 0
            /\ resp[p].body.obj.created_at = resp[p].body.obj.updated_at

C8_Witness_Created ==
    \E p \in Procs :
        /\ Inserted(p) /\ resp[p].status = StatusCreated
        /\ reqBody[p].obj.id = 9 /\ reqBody[p].obj.updated_at # reqBody[p].obj.created_at

\* a finished Get-by-identifier for the id of a record that a Create had
\* returned before the Get arrived
ReadBack(p) == Done(p) /\ op[p] = "Get" /\ seen[p] # {}

SameNameEmail(p) ==
    /\ resp[p].status = StatusOK
    /\ resp[p].body.t = "obj"
    /\ \E r \in returned :
         /\ r.id \in seen[p]
         /\ resp[p].body.obj.name = r.name
         /\ resp[p].body.obj.email = r.email

\* C9 as stated: reading back a created record by the id Create returned
\* always succeeds with the same name and email.
C9_RoundTripAlwaysSucceeds == \A p \in Procs : ReadBack(p) => SameNameEmail(p)

\* C9 amended: reading back a created record returns 200 with the same
\* name and email, from the cache or from the store, except that a lookup
\* that has to go to the store while the store is unreachable is answered
\* 500 with the store's error; it is never answered 404.
C9_RoundTripUnlessStoreFails ==
    \A p \in Procs :
        ReadBack(p) =>
            IF dbErr[p] = "" THEN SameNameEmail(p)
            ELSE /\ dbErr[p] = ErrStoreDown
                 /\ resp[p].status = StatusInternalServerError
                 /\ resp[p].body = JErr(ErrStoreDown)

C9_Witness_ReadBackFromCache ==
    \E p \in Procs : ReadBack(p) /\ cacheRead[p] = "hit" /\ SameNameEmail(p) /\ Cardinality(db) > 1

\* C10: Get-by-identifier with an empty or absent id is answered 400 "id
\* parameter is required" and makes no store call and no cache call.
C10_EmptyIDRejected ==
    \A p \in Procs :
        Done(p) /\ op[p] = "Get" /\ id[p] = "" =>
            /\ resp[p].status = StatusBadRequest
            /\ resp[p].body = JErr(ErrIDRequired)
            /\ calls[p] = {}

C10_Witness_EmptyID ==
    \E p \in Procs :
        Done(p) /\ op[p] = "Get" /\ id[p] = "" /\ resp[p].status = StatusBadRequest

\* C11: every response the service writes, on every registered path, for
\* every method and outcome, carries Content-Type application/json.
C11_EveryResponseIsJSON ==
    \A p \in Procs : Done(p) => resp[p].ctype = ContentTypeJSON

\* C12: a List over a store without rows, whose query the store answers,
\* is answered 200 with the empty array [], never null and never without
\* a body, whether the cache read missed, failed, or found a damaged value.
C12_EmptyStoreListsEmptyArray ==
    \A p \in Procs :
        Done(p) /\ op[p] = "List" /\ db = {} /\ dbErr[p] = "" =>
            /\ resp[p].status = StatusOK
            /\ resp[p].body = JArr(<<>>)
            /\ resp[p].ctype = ContentTypeJSON

C12_Witness_EmptyListCacheDown ==
    \E p \in Procs :
        /\ Done(p) /\ op[p] = "List" /\ db = {} /\ dbErr[p] = ""
        /\ cacheRead[p] = "err" /\ users[p].nil
        /\ resp[p].body = JArr(<<>>)

\* C13: no step removes or changes a row of the store; the store changes
\* only in the insert of a Create, which adds one row; the steps of List
\* and Get-by-identifier leave the store as it is.
C13_RowsNeverChangedOrDeleted ==
    [][ /\ db \subseteq db'
        /\ db' # db =>
             \E p \in Procs :
                 /\ op[p] = "Create" /\ pc[p] = "insert" /\ pc'[p] = "invalidate"
                 /\ Cardinality(db') = Cardinality(db) + 1
        /\ \A p \in Procs :
             op'[p] \in {"List", "Get"} /\ pc'[p] # pc[p] => db' = db ]_vars

C13_Witness_RowsKeptAcrossCalls ==
    /\ Cardinality(db) = MaxRows
    /\ \E p, q \in Procs :
         /\ Done(p) /\ op[p] = "Create" /\ resp[p].status = StatusCreated
         /\ Done(q) /\ op[q] = "List" /\ "db.Query" \in calls[q]

\* C14: the value the service keeps under "all_users" is a list of at
\* least one record (or what a fault made of such a value), and a List
\* whose result is empty makes no cache write.
C14_EmptyResultNotCached ==
    /\ cache[AllUsersKey].present =>
         \/ cache[AllUsersKey].json = JBad
         \/ cache[AllUsersKey].json.t = "arr" /\ Len(cache[AllUsersKey].json.arr) > 0
    /\ \A p \in Procs :
         op[p] = "List" /\ "db.Query" \in calls[p] /\ Len(users[p].elems) = 0 =>
             /\ pc[p] = "done"
             /\ "cache.Set" \notin calls[p]
             /\ cacheWrite[p] = "none"

C14_Witness_EmptyListNotCached ==
    \E p \in Procs :
        /\ Done(p) /\ op[p] = "List" /\ "db.Query" \in calls[p] /\ dbErr[p] = ""
        /\ Len(users[p].elems) = 0 /\ cacheUp /\ ~cache[AllUsersKey].present

\* C15: a POST /users whose body cannot be decoded is answered 400
\* "invalid request body" at once; Create is not invoked: no store call,
\* no cache call.
C15_UndecodableBodyRejected ==
    \A p \in Procs :
        op[p] = "Create" /\ reqBody[p] = Undecodable =>
            /\ Done(p)
            /\ resp[p] = Response(StatusBadRequest, JErr(ErrInvalidBody))
            /\ calls[p] = {}
            /\ cacheWrite[p] = "none" /\ dbErr[p] = ""

C15_Witness_UndecodableBody ==
    \E p \in Procs :
        /\ Done(p) /\ op[p] = "Create" /\ reqBody[p] = Undecodable
        /\ resp[p].status = StatusBadRequest

\* C16: a cache write of List leaves "all_users" with 5 minutes to live, a
\* cache write of Get-by-identifier leaves "user:<id>" with 10 minutes to
\* live; the second is the longer.
C16_TimeToLiveOfWrites ==
    [][ \A p \in Procs :
          pc[p] = "set" /\ pc'[p] = "done" /\ cacheUp =>
              /\ op[p] = "List" =>
                   cache'[AllUsersKey].present /\ cache'[AllUsersKey].ttl = 5
              /\ op[p] = "Get" =>
                   /\ cache'[UserKey(id[p])].present /\ cache'[UserKey(id[p])].ttl = 10
                   /\ cache'[UserKey(id[p])].ttl > AllUsersTTL ]_vars

C16_Witness_BothKeysCached ==
    /\ cache[AllUsersKey].present /\ cache[AllUsersKey].ttl = 5
    /\ cache[UserKey("1")].present /\ cache[UserKey("1")].ttl = 10
    /\ \E p \in Procs : Done(p) /\ op[p] = "Get" /\ cacheWrite[p] = "ok"

\* C17: a /health request is answered 200 {"status":"ok"} whether or not
\* the store and the cache answer, makes no store or cache call, and
\* leaves both as they are.
C17_HealthAlwaysOK ==
    /\ [](\A p \in Procs :
            Done(p) /\ op[p] = "Health" =>
                /\ resp[p].status = StatusOK
                /\ resp[p].body = JStatus("ok")
                /\ calls[p] = {}
                /\ cacheRead[p] = "none" /\ cacheWrite[p] = "none" /\ dbErr[p] = "")
    /\ [][ \A p \in Procs :
            pc[p] = "idle" /\ op'[p] = "Health" => db' = db /\ cache' = cache ]_vars

C17_Witness_HealthDuringOutage ==
    \E p \in Procs :
        Done(p) /\ op[p] = "Health" /\ outage[p] /\ ~dbUp /\ resp[p].status = StatusOK

\* every call has completed
Quiescent == \A p \in Procs : pc[p] \in {"idle", "done"}

\* C18: with a reliable store and cache, once every call has completed the
\* "all_users" entry is absent or holds every row of the store.
C18_QuiescentCacheComplete ==
    Quiescent /\ cache[AllUsersKey].present =>
        {r.id : r \in db} \subseteq ArrayIDs(cache[AllUsersKey].json)

\* C19: a List whose row iteration is cut short by a store failure is
\* answered with an error, and its partial result is neither returned as
\* a success nor written to the cache.
C19_TruncatedListIsAnError ==
    \A p \in Procs :
        op[p] = "List" /\ dbErr[p] = ErrRowsIter =>
            /\ pc[p] = "done"
            /\ resp[p].status = StatusInternalServerError
            /\ "cache.Set" \notin calls[p]

\* a finished Create whose insert succeeded and whose cache delete failed
DeleteFailed(p) == Inserted(p) /\ "cache.Delete" \in calls[p] /\ cacheWrite[p] = "err"

\* C20: a Create whose insert succeeds and whose cache delete fails is
\* answered 201 with the populated record, and the row is in the store.
C20_DeleteFailureStillCreated ==
    \A p \in Procs :
        DeleteFailed(p) =>
            /\ resp[p].status = StatusCreated
            /\ resp[p].body.t = "obj"
            /\ resp[p].body.obj.id # 0
            /\ resp[p].body.obj.name = reqBody[p].obj.name
            /\ resp[p].body.obj.email = reqBody[p].obj.email
            /\ resp[p].body.obj \in db

C20_Witness_CreatedDespiteDeleteError ==
    \E p \in Procs : DeleteFailed(p) /\ resp[p].status = StatusCreated /\ ~cacheUp

\* C21: the steps of a Create change the cache in one way only: its
\* invalidation removes "all_users"; no key is written, and every
\* "user:<id>" entry stays as it is.
C21_CreateOnlyDeletesList ==
    [][ \A p \in Procs :
          op'[p] = "Create" /\ pc'[p] # pc[p] =>
              /\ \A k \in CacheKeys \ {AllUsersKey} : cache'[k] = cache[k]
              /\ \/ cache'[AllUsersKey] = cache[AllUsersKey]
                 \/ /\ pc[p] = "invalidate"
                    /\ ~cache'[AllUsersKey].present ]_vars

C21_Witness_ListDeletedUserKept ==
    \E p \in Procs :
        /\ Done(p) /\ op[p] = "Create" /\ resp[p].status = StatusCreated
        /\ cacheWrite[p] = "ok"
        /\ ~cache[AllUsersKey].present
        /\ cache[UserKey("1")].present /\ cache[UserKey("1")].json.t = "obj"

\* the records held under a cache key
CachedRecords(k) ==
    LET j == cache[k].json
    IN IF ~cache[k].present THEN {}
       ELSE IF j.t = "arr" THEN {j.arr[i] : i \in 1 .. Len(j.arr)}
       ELSE IF j.t = "obj" THEN {j.obj}
       ELSE {}

\* C22: every record in the cache is a row of the store, field by field,
\* and the record under "user:<id>" is the row whose identifier is <id>.
C22_CacheHoldsStoreRows ==
    /\ \A k \in CacheKeys : CachedRecords(k) \subseteq db
    /\ \A s \in IdStrings \ {""} :
         \A u \in CachedRecords(UserKey(s)) : ToString(u.id) = s

C22_Witness_ListAndUserCached ==
    /\ Cardinality(CachedRecords(AllUsersKey)) = MaxRows
    /\ CachedRecords(UserKey("1")) # {}

\* the row of the store with the given email
RowWithEmail(e) == CHOOSE r \in db : r.email = e

\* the response of a service without a cache to the finished request of p:
\* it asks the store each time
Reference(p) ==
    CASE op[p] = "List" ->
           [status |-> 200, ctype |-> "application/json", body |-> JArr(SortByID(db))]
      [] op[p] = "Get" ->
           IF id[p] = ""
           THEN [status |-> 400, ctype |-> "application/json",
                 body |-> JErr("id parameter is required")]
           ELSE IF \E r \in db : ToString(r.id) = id[p]
           THEN [status |-> 200, ctype |-> "application/json",
                 body |-> JObj(CHOOSE r \in db : ToString(r.id) = id[p])]
           ELSE IF dbErr[p] = ErrBadIDSyntax
           THEN [status |-> 500, ctype |-> "application/json", body |-> JErr(ErrBadIDSyntax)]
           ELSE [status |-> 404, ctype |-> "application/json", body |-> JErr("user not found")]
      [] OTHER ->
           IF reqBody[p].t = "bad"
           THEN [status |-> 400, ctype |-> "application/json",
                 body |-> JErr("invalid request body")]
           ELSE IF ~ValidBody(reqBody[p])
           THEN [status |-> 400, ctype |-> "application/json",
                 body |-> JErr("name and email are required")]
           ELSE IF dbErr[p] # ""
           THEN [status |-> 400, ctype |-> "application/json",
                 body |-> JErr("failed to create user: " \o dbErr[p])]
           ELSE [status |-> 201, ctype |-> "application/json",
                 body |-> JObj(RowWithEmail(reqBody[p].obj.email))]

\* C23: in a sequential run against a reliable store and cache, every
\* response of List, Get-by-identifier and Create is the response of the
\* service without a cache, wherever the entries expire in between.
C23_SequentialLikeUncached ==
    \A p \in Procs : Done(p) => resp[p] = Reference(p)

C23_Witness_ListFromCacheAfterCreate ==
    \E p \in Procs :
        /\ Done(p) /\ op[p] = "List" /\ cacheRead[p] = "hit"
        /\ Cardinality(db) = MaxRows
        /\ cache[UserKey("1")].present /\ cache[UserKey("1")].ttl = UserTTL - TickStep
        /\ resp[p] = Reference(p)

\* C24: a request served from the cache makes no other call: the step
\* that hits leaves the store and the whole cache, times to live included,
\* as they were, and the response carries the cached value.
C24_HitTouchesNothing ==
    /\ [](\A p \in Procs :
            Done(p) /\ cacheRead[p] = "hit" =>
                /\ calls[p] = {"cache.Get"}
                /\ cacheWrite[p] = "none"
                /\ resp[p].status = StatusOK)
    /\ [][ \A p \in Procs :
            pc[p] = "idle" /\ cacheRead'[p] = "hit" =>
                /\ db' = db /\ cache' = cache
                /\ op'[p] = "List" => resp'[p].body = cache[AllUsersKey].json
                /\ op'[p] = "Get" => resp'[p].body = cache[UserKey(id'[p])].json ]_vars

C24_Witness_HitOnAgedEntry ==
    \E p \in Procs :
        /\ Done(p) /\ op[p] = "Get" /\ cacheRead[p] = "hit"
        /\ cache[UserKey(id[p])].present
        /\ cache[UserKey(id[p])].ttl = UserTTL - TickStep

\* the identifiers of a JSON array of users, in its order
IDSeq(j) == [i \in 1 .. Len(j.arr) |-> j.arr[i].id]

\* C25: a successful List answers an array whose identifiers ascend
\* strictly, from the store and from the cache alike.
C25_ListAscendingByID ==
    \A p \in Procs :
        Done(p) /\ op[p] = "List" /\ resp[p].status = StatusOK =>
            /\ resp[p].body.t = "arr"
            /\ \A i, j \in 1 .. Len(resp[p].body.arr) :
                 i < j => IDSeq(resp[p].body)[i] < IDSeq(resp[p].body)[j]

C25_Witness_TwoRowsFromCache ==
    \E p, q \in Procs :
        /\ Done(p) /\ op[p] = "List" /\ cacheRead[p] = "hit"
        /\ Done(q) /\ op[q] = "List" /\ cacheRead[q] = "miss"
        /\ Len(resp[p].body.arr) = 2 /\ Len(resp[q].body.arr) = 2

\* C26: the record a successful Create answers with is the stored row:
\* its identifier is the one the store assigned and both its timestamps
\* are the clock reading of the insert; no identifier or timestamp sent in
\* the body is in the response or in any row.
C26_SuppliedFieldsOverwritten ==
    /\ \A r \in db :
         /\ r.id \in 1 .. Cardinality(db)
         /\ r.created_at = r.updated_at
         /\ r.created_at <= now /\ (r.created_at - 1) % TickStep = 0
    /\ \A p \in Procs :
         Inserted(p) =>
             /\ resp[p].status = StatusCreated
             /\ resp[p].body.t = "obj"
             /\ resp[p].body.obj \in db
             /\ resp[p].body.obj.email = reqBody[p].obj.email

C26_Witness_SuppliedIDReplaced ==
    \E p \in Procs :
        /\ Inserted(p) /\ reqBody[p].obj.id = 9 /\ reqBody[p].obj.created_at = 3
        /\ resp[p].body.obj.id = 1 /\ resp[p].body.obj.created_at = now

\* C27: the step of a Get-by-identifier that ends in not-found leaves the
\* cache as it is, and a Get-by-identifier that arrives after a Create has
\* returned the row with that identifier is never answered not-found: it
\* is answered with the row whenever the store answers.
C27_NoNegativeCaching ==
    /\ [](\A p \in Procs :
            /\ Done(p) /\ op[p] = "Get" /\ resp[p].status = StatusNotFound =>
                 "cache.Set" \notin calls[p] /\ cacheWrite[p] = "none"
            /\ ReadBack(p) =>
                 /\ resp[p].status # StatusNotFound
                 /\ dbErr[p] # ErrStoreDown =>
                      /\ resp[p].status = StatusOK
                      /\ resp[p].body.t = "obj"
                      /\ resp[p].body.obj \in db
                      /\ ToString(resp[p].body.obj.id) = id[p])
    /\ [][ \A p \in Procs :
            op'[p] = "Get" /\ pc'[p] = "done" /\ pc[p] # "done"
            /\ resp'[p].status = StatusNotFound => cache' = cache ]_vars

C27_Witness_FoundAfterNotFound ==
    \E p, q \in Procs :
        /\ Done(p) /\ op[p] = "Get" /\ id[p] = "1" /\ resp[p].status = StatusNotFound
        /\ Done(q) /\ op[q] = "Get" /\ id[q] = "1" /\ resp[q].status = StatusOK
        /\ seen[q] = {1} /\ seen[p] = {}

\* a finished Create whose insert the store refused
InsertFailed(p) == Done(p) /\ op[p] = "Create" /\ dbErr[p] # ""

\* C28: a Create whose insert fails adds no row, makes no cache call, and
\* leaves the record as it was decoded; the failing step changes neither
\* the store nor the cache.
C28_FailedInsertChangesNothing ==
    /\ [](\A p \in Procs :
            InsertFailed(p) =>
                /\ calls[p] = {"db.QueryRow"}
                /\ cacheWrite[p] = "none"
                /\ user[p] = reqBody[p].obj
                /\ resp[p].status # StatusCreated)
    /\ [][ \A p \in Procs :
            pc[p] = "insert" /\ dbErr'[p] # "" =>
                db' = db /\ cache' = cache /\ user'[p] = user[p] ]_vars

C28_Witness_DuplicateLeavesListCached ==
    \E p \in Procs :
        /\ InsertFailed(p) /\ dbErr[p] = ErrDuplicate
        /\ reqBody[p].obj.id = 9 /\ user[p].id = 9 /\ user[p].created_at = 3
        /\ cache[AllUsersKey].present /\ cache[AllUsersKey].json.t = "arr"

C30_OtherMethodsNotAllowed ==
    /\ [](\A p \in Procs :
            Done(p) /\ op[p] = "NotAllowed" =>
                /\ resp[p].status = 405
                /\ calls[p] = {}
                /\ cacheRead[p] = "none" /\ cacheWrite[p] = "none" /\ dbErr[p] = "")
    /\ [][ \A p \in Procs :
            pc[p] = "idle" /\ op'[p] = "NotAllowed" => db' = db /\ cache' = cache ]_vars

C30_Witness_NotAllowedOnLiveData ==
    \E p \in Procs :
        /\ Done(p) /\ op[p] = "NotAllowed" /\ resp[p].status = 405
        /\ db # {} /\ cache[AllUsersKey].present
====
